---- MODULE Spec2Model ----
(***************************************************************************)
(* Message normalisation and system-prompt editing of nanograph.           *)
(*                                                                         *)
(* Python objects live in a heap (a sequence of objects, an address is an  *)
(* index into it) because lists and mappings are shared by reference: the  *)
(* editing routines write into mappings the caller still holds.  Strings   *)
(* are immutable and are values; a string is the sequence of its           *)
(* characters, so that concatenation, iteration and the substring test of  *)
(* `in` are computed, not assumed.  Positions in the model are 1-based     *)
(* (Python index i is position i + 1).                                     *)
(***************************************************************************)
EXTENDS Integers, Sequences, FiniteSets, TLC

VARIABLES
    heap,     \* the objects of the process: Seq(object)
    arg,      \* the `messages` argument of the call
    context,  \* the `context` argument of add_context_to_messages
    op,       \* "idle" before the call, then the name of the function called
    ret,      \* how the call ended: a returned value or a raised exception
    pre,      \* the heap as it was when the call started
    prompt,   \* the `prompt` argument of swap_system_prompt
    hist,     \* the calls made so far, each with its string argument
    t0,       \* the value of the first argument, as it was at the start
    resources \* the globals of the two resource modules

vars == <<heap, arg, context, op, ret, pre, prompt, hist, t0, resources>>

-----------------------------------------------------------------------------
(* Bounds of the inputs the model enumerates.                              *)

MaxTop == 2      \* elements of the top-level sequence given to format_messages
MaxSlots == 3    \* elements of the whole input, over all its nested sequences
MaxLen == 3      \* messages of a flat thread given to add_context_to_messages
MaxBatch == 2    \* threads of a batch given to add_context_to_messages
MaxCalls == 3    \* editing calls made one after the other
MaxGets == 5     \* calls of the resource getters

-----------------------------------------------------------------------------
(* String literals of the source, as character sequences.                  *)

ROLE == <<"r", "o", "l", "e">>
CONTENT == <<"c", "o", "n", "t", "e", "n", "t">>
USER == <<"u", "s", "e", "r">>
SYSTEM == <<"s", "y", "s", "t", "e", "m">>
SEP == <<"\n", "\n">>

-----------------------------------------------------------------------------
(* Python values and objects.                                              *)

Str(s) == [k |-> "str", s |-> s, a |-> 0]
NoneV == [k |-> "None", s |-> <<>>, a |-> 0]
IntV(n) == [k |-> "int", s |-> <<>>, a |-> n]
BoolV(b) == [k |-> "bool", s |-> <<>>, a |-> IF b THEN 1 ELSE 0]
Ref(a) == [k |-> "ref", s |-> <<>>, a |-> a]

\* A dict keeps its keys in insertion order; vals[i] is the value of keys[i].
DictObj(keys, vals) == [k |-> "dict", keys |-> keys, items |-> vals]
ListObj(items) == [k |-> "list", keys |-> <<>>, items |-> items]
TupleObj(items) == [k |-> "tuple", keys |-> <<>>, items |-> items]

Return(v) == [kind |-> "return", val |-> v, exc |-> "", at |-> <<>>]
\* `at` is the position of the loops when the exception was raised.
Raise(e, at) == [kind |-> "raise", val |-> NoneV, exc |-> e, at |-> at]
NoCall == [kind |-> "none", val |-> NoneV, exc |-> "", at |-> <<>>]

IsStr(v) == v.k = "str"
IsObj(h, v, kind) == v.k = "ref" /\ h[v.a].k = kind
IsList(h, v) == IsObj(h, v, "list")
IsTuple(h, v) == IsObj(h, v, "tuple")
IsDict(h, v) == IsObj(h, v, "dict")

Items(h, v) == h[v.a].items
Keys(h, v) == h[v.a].keys

\* key in d, for a dict d
HasKey(h, v, key) == \E i \in 1..Len(Keys(h, v)) : Keys(h, v)[i] = key

\* d[key], for a dict d that has the key
Get(h, v, key) == Items(h, v)[CHOOSE i \in 1..Len(Keys(h, v)) : Keys(h, v)[i] = key]

IsSubstring(n, s) ==
    \E i \in 0..(Len(s) - Len(n)) : SubSeq(s, i + 1, i + Len(n)) = n

\* `needle in v` for a string needle: "True", "False" or "TypeError".
In(h, needle, v) ==
    IF IsStr(v) THEN (IF IsSubstring(needle, v.s) THEN "True" ELSE "False")
    ELSE IF IsDict(h, v) THEN (IF HasKey(h, v, needle) THEN "True" ELSE "False")
    ELSE IF IsList(h, v) \/ IsTuple(h, v)
        THEN (IF \E i \in 1..Len(Items(h, v)) : Items(h, v)[i] = Str(needle)
              THEN "True" ELSE "False")
    ELSE "TypeError"

Iterable(h, v) == IsStr(v) \/ IsDict(h, v) \/ IsList(h, v) \/ IsTuple(h, v)

\* The values `for x in v` yields, for an iterable v: the characters of a
\* string, the keys of a dict, the elements of a list or tuple.
Iter(h, v) ==
    IF IsStr(v) THEN [i \in 1..Len(v.s) |-> Str(<<v.s[i]>>)]
    ELSE IF IsDict(h, v) THEN [i \in 1..Len(Keys(h, v)) |-> Str(Keys(h, v)[i])]
    ELSE Items(h, v)

\* bool(v)
Truthy(h, v) ==
    IF IsStr(v) THEN v.s # <<>>
    ELSE IF v.k = "None" THEN FALSE
    ELSE IF v.k \in {"int", "bool"} THEN v.a # 0
    ELSE IF IsDict(h, v) THEN Keys(h, v) # <<>>
    ELSE Items(h, v) # <<>>

\* The address a new object gets, and the heap with it.
NewAddr(h) == Len(h) + 1
Alloc(h, obj) == Append(h, obj)

\* Every object that existed before the call is as it was.
Unmutated(h0, h) == Len(h) >= Len(h0) /\ \A a \in 1..Len(h0) : h[a] = h0[a]

\* The value of v with every reference followed: what Python's == compares.
RECURSIVE DeepValue(_, _)
DeepValue(h, v) ==
    IF v.k # "ref" THEN v
    ELSE [k |-> h[v.a].k,
          keys |-> h[v.a].keys,
          items |-> [i \in 1..Len(h[v.a].items) |-> DeepValue(h, h[v.a].items[i])]]

-----------------------------------------------------------------------------
(* nanograph/_utils/messages.py                                            *)

determine_if_batch_any_list(h, messages) ==
    IF IsStr(messages) THEN Return(BoolV(FALSE))
    ELSE IF ~IsList(h, messages) THEN Return(BoolV(FALSE))
    ELSE IF Items(h, messages) = <<>> THEN Raise("IndexError", <<>>)
    ELSE Return(BoolV(TRUE))

determine_if_batch(h, messages) ==
    IF IsStr(messages) THEN Return(BoolV(FALSE))
    ELSE IF ~IsList(h, messages) THEN Return(BoolV(FALSE))
    ELSE IF Items(h, messages) = <<>> THEN Raise("IndexError", <<>>)
    ELSE Return(BoolV(IsList(h, Items(h, messages)[1])))

\* not isinstance(message, Dict) or "role" not in message
InvalidMessage(h, message) == ~IsDict(h, message) \/ ~HasKey(h, message, ROLE)

\* The position of the first element from position i on that the loop
\* `for message in ...` rejects, 0 when it runs to the end.
RECURSIVE FirstInvalid_keeps_going(_, _, _)
FirstInvalid_keeps_going(h, seq, i) ==
    IF i > Len(seq) THEN 0
    ELSE IF FirstInvalid_keeps_going(h, seq, i + 1) # 0
        THEN FirstInvalid_keeps_going(h, seq, i + 1)
    ELSE IF InvalidMessage(h, seq[i]) THEN i
    ELSE 0

RECURSIVE FirstInvalid(_, _, _)
FirstInvalid(h, seq, i) ==
    IF i > Len(seq) THEN 0
    ELSE IF InvalidMessage(h, seq[i]) THEN i
    ELSE FirstInvalid(h, seq, i + 1)

\* The batch loop from thread ti on: NoCall when every thread passes.
RECURSIVE CheckBatch(_, _, _)
CheckBatch(h, threads, ti) ==
    IF ti > Len(threads) THEN NoCall
    ELSE IF ~Iterable(h, threads[ti]) THEN Raise("TypeError", <<ti>>)
    ELSE LET bad == FirstInvalid(h, Iter(h, threads[ti]), 1)
         IN  IF bad # 0 THEN Raise("ValueError", <<ti, bad>>)
             ELSE CheckBatch(h, threads, ti + 1)

\* {"role": "user", "content": messages}
UserMessage_roleless(content) == DictObj(<<CONTENT>>, <<content>>)

UserMessage(content) == DictObj(<<ROLE, CONTENT>>, <<Str(USER), content>>)

\* The result is the pair of the heap after the call and how the call ended.
format_messages(h, messages) ==
    IF IsStr(messages) THEN
        LET h1 == Alloc(h, UserMessage(messages))
            h2 == Alloc(h1, ListObj(<<Ref(NewAddr(h))>>))
        IN  [heap |-> h2, ret |-> Return(Ref(NewAddr(h1)))]
    ELSE IF determine_if_batch(h, messages).kind = "raise" THEN
        [heap |-> h, ret |-> determine_if_batch(h, messages)]
    ELSE IF determine_if_batch(h, messages).val = BoolV(TRUE) THEN
        LET r == CheckBatch(h, Items(h, messages), 1)
        IN  [heap |-> h, ret |-> IF r.kind = "raise" THEN r ELSE Return(messages)]
    ELSE IF IsDict(h, messages) /\ HasKey(h, messages, ROLE) THEN
        [heap |-> Alloc(h, ListObj(<<messages>>)), ret |-> Return(Ref(NewAddr(h)))]
    ELSE IF ~IsList(h, messages) THEN
        [heap |-> h, ret |-> Raise("ValueError", <<>>)]
    ELSE
        LET bad == FirstInvalid(h, Items(h, messages), 1)
        IN  [heap |-> h,
             ret |-> IF bad # 0 THEN Raise("ValueError", <<bad>>) ELSE Return(messages)]

-----------------------------------------------------------------------------
(* messages.py (library level utilities)                                   *)

\* Message(role=role, content=content): a mapping with the two keys.
construct_message(content, role) == DictObj(<<ROLE, CONTENT>>, <<Str(role), content>>)

\* The position of the first message from position i on that the loop stops
\* at, with the exception it raises there; NoCall when it runs to the end.
RECURSIVE ValidateFrom(_, _, _)
ValidateFrom(h, seq, i) ==
    IF i > Len(seq) THEN NoCall
    ELSE IF In(h, ROLE, seq[i]) = "TypeError" THEN Raise("TypeError", <<i>>)
    ELSE IF In(h, ROLE, seq[i]) = "False" THEN Raise("ValueError", <<i>>)
    ELSE ValidateFrom(h, seq, i + 1)

validate_thread_of_messages(h, messages) ==
    IF ~Iterable(h, messages) THEN Raise("TypeError", <<>>)
    ELSE LET r == ValidateFrom(h, Iter(h, messages), 1)
         IN  IF r.kind = "raise" THEN r ELSE Return(messages)

\* The loop over the threads of a batch from thread ti on: the threads
\* appended to formatted_threads, or the exception of the first that fails.
RECURSIVE FormatThreads(_, _, _)
FormatThreads(h, threads, ti) ==
    IF ti > Len(threads) THEN NoCall
    ELSE LET r == validate_thread_of_messages(h, threads[ti])
         IN  IF r.kind = "raise" THEN Raise(r.exc, <<ti>> \o r.at)
             ELSE FormatThreads(h, threads, ti + 1)

lib_format_messages(h, messages) ==
    IF IsStr(messages) THEN
        LET h1 == Alloc(h, construct_message(messages, USER))
            h2 == Alloc(h1, ListObj(<<Ref(NewAddr(h))>>))
        IN  [heap |-> h2, ret |-> Return(Ref(NewAddr(h1)))]
    ELSE IF ~IsList(h, messages) THEN
        IF In(h, ROLE, messages) = "TypeError" THEN
            [heap |-> h, ret |-> Raise("TypeError", <<>>)]
        ELSE IF In(h, ROLE, messages) = "True" THEN
            [heap |-> Alloc(h, ListObj(<<messages>>)), ret |-> Return(Ref(NewAddr(h)))]
        ELSE [heap |-> h, ret |-> Raise("ValueError", <<>>)]
    ELSE IF Items(h, messages) = <<>> THEN
        [heap |-> h, ret |-> Raise("IndexError", <<>>)]
    ELSE IF ~IsList(h, Items(h, messages)[1]) THEN
        [heap |-> h, ret |-> validate_thread_of_messages(h, messages)]
    ELSE
        \* formatted_threads is a new list holding the threads validated so far
        LET r == FormatThreads(h, Items(h, messages), 1)
            full == Alloc(h, ListObj(Items(h, messages)))
            part == Alloc(h, ListObj(SubSeq(Items(h, messages), 1, r.at[1] - 1)))
        IN  IF r.kind = "raise" THEN [heap |-> part, ret |-> r]
            ELSE [heap |-> full, ret |-> Return(Ref(NewAddr(h)))]

\* msg["role"] for every message from position i on, in order: the exception
\* of the first message that has no role or cannot be subscripted by a
\* string, NoCall when the loop runs to the end.
RECURSIVE RoleLookup(_, _, _)
RoleLookup(h, seq, i) ==
    IF i > Len(seq) THEN NoCall
    ELSE IF ~IsDict(h, seq[i]) THEN Raise("TypeError", <<i>>)
    ELSE IF ~HasKey(h, seq[i], ROLE) THEN Raise("KeyError", <<i>>)
    ELSE RoleLookup(h, seq, i + 1)

\* system_idx after the loop: every system message overwrites it, so it is
\* the position of the last one; 0 stands for None.
RECURSIVE SystemIdx_first(_, _, _, _)
SystemIdx_first(h, seq, i, found) ==
    IF i > Len(seq) THEN found
    ELSE SystemIdx_first(h, seq, i + 1,
                         IF found = 0 /\ Get(h, seq[i], ROLE) = Str(SYSTEM) THEN i ELSE found)

RECURSIVE SystemIdx(_, _, _, _)
SystemIdx(h, seq, i, found) ==
    IF i > Len(seq) THEN found
    ELSE SystemIdx(h, seq, i + 1,
                   IF Get(h, seq[i], ROLE) = Str(SYSTEM) THEN i ELSE found)

\* d[key] = val on the dict at address a
SetKey(h, a, key, val) ==
    LET i == CHOOSE j \in 1..Len(h[a].keys) : h[a].keys[j] = key
    IN  [h EXCEPT ![a].items[i] = val]

\* msg_list.insert(0, msg)
InsertFirst_appends(msg_list, msg) == Append(msg_list, msg)

InsertFirst(msg_list, msg) == <<msg>> \o msg_list

_add_context_to_sequence(h, msg_sequence, ctx) ==
    IF ~Iterable(h, msg_sequence) THEN [heap |-> h, ret |-> Raise("TypeError", <<>>)]
    ELSE
        LET msg_list == Iter(h, msg_sequence)
            h1 == Alloc(h, ListObj(msg_list))
            lst == NewAddr(h)
            look == RoleLookup(h1, msg_list, 1)
            system_idx == SystemIdx(h1, msg_list, 1, 0)
            msg == msg_list[system_idx]
        IN  IF look.kind = "raise" THEN [heap |-> h1, ret |-> look]
            ELSE IF system_idx # 0 THEN
                IF ~HasKey(h1, msg, CONTENT) THEN
                    [heap |-> h1, ret |-> Raise("KeyError", <<system_idx>>)]
                ELSE IF ~IsStr(Get(h1, msg, CONTENT)) THEN
                    [heap |-> h1, ret |-> Raise("TypeError", <<system_idx>>)]
                ELSE
                    [heap |-> SetKey(h1, msg.a, CONTENT,
                                     Str(Get(h1, msg, CONTENT).s \o SEP \o ctx)),
                     ret |-> Return(Ref(lst))]
            ELSE
                LET h2 == Alloc(h1, construct_message(Str(ctx), SYSTEM))
                IN  [heap |-> [h2 EXCEPT ![lst].items = InsertFirst(msg_list, Ref(NewAddr(h1)))],
                     ret |-> Return(Ref(lst))]

\* The list comprehension over the threads from position i on; `out` is the
\* address of the list it builds.
RECURSIVE AddToThreads(_, _, _, _, _)
AddToThreads(h, threads, i, out, ctx) ==
    IF i > Len(threads) THEN [heap |-> h, ret |-> Return(Ref(out))]
    ELSE LET r == _add_context_to_sequence(h, threads[i], ctx)
         IN  IF r.ret.kind = "raise"
             THEN [heap |-> r.heap, ret |-> Raise(r.ret.exc, <<i>> \o r.ret.at)]
             ELSE AddToThreads([r.heap EXCEPT ![out].items = Append(@, r.ret.val)],
                               threads, i + 1, out, ctx)

\* messages[0] raises for what cannot be indexed by 0; "" when it does not.
FirstElementError(h, messages) ==
    IF IsDict(h, messages) THEN "KeyError"
    ELSE IF Iterable(h, messages) THEN ""
    ELSE "TypeError"

add_context_to_messages(h, messages, ctx) ==
    IF ~Truthy(h, messages) THEN _add_context_to_sequence(h, messages, ctx)
    ELSE IF FirstElementError(h, messages) # "" THEN
        [heap |-> h, ret |-> Raise(FirstElementError(h, messages), <<>>)]
    ELSE IF ~(IsList(h, Iter(h, messages)[1]) \/ IsTuple(h, Iter(h, messages)[1])) THEN
        _add_context_to_sequence(h, messages, ctx)
    ELSE AddToThreads(Alloc(h, ListObj(<<>>)), Iter(h, messages), 1, NewAddr(h), ctx)

\* msg_list = list(messages): a new list of the same elements; the heap
\* with it and its address.
ListCopy_alias(h, messages) ==
    IF IsList(h, messages) THEN [heap |-> h, a |-> messages.a]
    ELSE [heap |-> Alloc(h, ListObj(Iter(h, messages))), a |-> NewAddr(h)]

ListCopy(h, messages) == [heap |-> Alloc(h, ListObj(Iter(h, messages))), a |-> NewAddr(h)]

\* [i for i, msg in enumerate(msg_list) if msg["role"] == "system"] from
\* position i on: the positions of the system messages, in increasing order.
RECURSIVE SystemIndices(_, _, _)
SystemIndices(h, seq, i) ==
    IF i > Len(seq) THEN <<>>
    ELSE (IF Get(h, seq[i], ROLE) = Str(SYSTEM) THEN <<i>> ELSE <<>>)
         \o SystemIndices(h, seq, i + 1)

\* system_indices[-1]
LastOf_first(system_indices) == system_indices[1]

LastOf(system_indices) == system_indices[Len(system_indices)]

\* reversed(system_indices[:-1])
EarlierReversed_forward(system_indices) ==
    SubSeq(system_indices, 1, Len(system_indices) - 1)

EarlierReversed(system_indices) ==
    [n \in 1..(Len(system_indices) - 1) |-> system_indices[Len(system_indices) - n]]

\* The elements left by `del msg_list[idx]`, for idx within the list.
DelAt_keeps(items, idx) == items

DelAt_off_by_one(items, idx) ==
    IF idx + 1 > Len(items) THEN items
    ELSE SubSeq(items, 1, idx) \o SubSeq(items, idx + 2, Len(items))

DelAt(items, idx) == SubSeq(items, 1, idx - 1) \o SubSeq(items, idx + 1, Len(items))

\* The loop `for idx in order: del msg_list[idx]` from the n-th index on, on
\* the list at address lst.
RECURSIVE DeleteAll(_, _, _, _)
DeleteAll(h, lst, order, n) ==
    IF n > Len(order) THEN [heap |-> h, ret |-> Return(Ref(lst))]
    ELSE IF order[n] > Len(h[lst].items) THEN [heap |-> h, ret |-> Raise("IndexError", <<n>>)]
    ELSE DeleteAll([h EXCEPT ![lst].items = DelAt(@, order[n])], lst, order, n + 1)

swap_system_prompt(h, messages, p) ==
    IF ~Iterable(h, messages) THEN [heap |-> h, ret |-> Raise("TypeError", <<>>)]
    ELSE
        LET copy == ListCopy(h, messages)
            h1 == copy.heap
            lst == copy.a
            msg_list == h1[lst].items
            look == RoleLookup(h1, msg_list, 1)
            system_indices == SystemIndices(h1, msg_list, 1)
            h2 == Alloc(h1, construct_message(Str(p), SYSTEM))
            new == Ref(NewAddr(h1))
        IN  IF look.kind = "raise" THEN [heap |-> h1, ret |-> look]
            ELSE IF system_indices # <<>> THEN
                DeleteAll([h2 EXCEPT ![lst].items[LastOf(system_indices)] = new],
                          lst, EarlierReversed(system_indices), 1)
            ELSE
                [heap |-> [h2 EXCEPT ![lst].items = InsertFirst(msg_list, new)],
                 ret |-> Return(Ref(lst))]

-----------------------------------------------------------------------------
(* nanograph/_resource.py and nanograph/lib/resource.py                    *)

\* The two modules, each with its own globals and its own getter.
Modules == {"_resource", "lib.resource"}

Getter(m) == IF m = "_resource" THEN "get_resource" ELSE "get_litellm_resource"

\* _litellm_initialized = False; _resource_instance = None
ModuleGlobals == [_litellm_initialized |-> FALSE, _resource_instance |-> NoneV]

\* _LiteLLMResource(): the object a successful construction makes.
ResourceObj(m) == [k |-> "_LiteLLMResource", keys |-> <<>>, items |-> <<>>, module |-> m]

\* if not _litellm_initialized: ...; _litellm_initialized = True
SetInitialized_forgets(g) == g

SetInitialized(g) == [g EXCEPT !._litellm_initialized = TRUE]

\* The getter of module m, with globals g; `importable` tells whether
\* `import litellm` in the constructor succeeds.  The result is the heap,
\* the globals and how the call ended.
get_resource(h, g, m, importable) ==
    IF ~g._litellm_initialized THEN
        IF ~importable THEN [heap |-> h, globals |-> g, ret |-> Raise("RuntimeError", <<>>)]
        ELSE LET g1 == SetInitialized([g EXCEPT !._resource_instance = Ref(NewAddr(h))])
             IN  [heap |-> Alloc(h, ResourceObj(m)), globals |-> g1,
                  ret |-> Return(g1._resource_instance)]
    ELSE [heap |-> h, globals |-> g, ret |-> Return(g._resource_instance)]

-----------------------------------------------------------------------------
(* The inputs.                                                             *)

\* Mappings the caller holds: two system messages, a user message, and a
\* mapping without a role.
Pool == <<
    DictObj(<<ROLE, CONTENT>>, <<Str(SYSTEM), Str(<<"b", "a", "s", "e">>)>>),
    DictObj(<<ROLE, CONTENT>>, <<Str(SYSTEM), Str(<<"s", "2">>)>>),
    DictObj(<<ROLE, CONTENT>>, <<Str(USER), Str(<<"h", "i">>)>>),
    DictObj(<<CONTENT>>, <<Str(<<"x">>)>>) >>

Kinds == {"list", "tuple"}

\* What an element of a sequence given to format_messages is drawn from: a
\* message, a mapping without a role, and the empty string.
Elems == {Ref(3), Ref(4), Str(<<>>)}

\* What the argument is drawn from when it is not a sequence.
Scalars == {Str(<<>>), Str(<<"h", "i">>), Str(ROLE), NoneV, IntV(0), IntV(5)}

\* An element of the top-level sequence: a value, or a nested sequence that
\* is built as an object of its own.
Plain(v) == [sub |-> "no", v |-> v, items |-> <<>>]
Nested(kind, items) == [sub |-> kind, v |-> NoneV, items |-> items]

\* The top-level sequences of at most l elements that hold at most s
\* elements of Elems in all.
RECURSIVE Tops(_, _)
Tops(l, s) ==
    IF l = 0 THEN {<<>>}
    ELSE {<<>>}
         \cup (IF s = 0 THEN {}
               ELSE {<<Plain(v)>> \o r : v \in Elems, r \in Tops(l - 1, s - 1)})
         \cup UNION { {<<Nested(kd, it)>> \o r :
                          kd \in Kinds, it \in [1..j -> Elems], r \in Tops(l - 1, s - j)}
                      : j \in 0..s }

\* The heap with the nested sequences of `top` built from position i on,
\* and the elements of the top-level sequence: <<heap, elements>>.
RECURSIVE Build(_, _, _)
Build(h, top, i) ==
    IF i > Len(top) THEN <<h, <<>>>>
    ELSE IF top[i].sub = "no" THEN
        LET rest == Build(h, top, i + 1)
        IN  <<rest[1], <<top[i].v>> \o rest[2]>>
    ELSE
        LET obj == IF top[i].sub = "list" THEN ListObj(top[i].items)
                   ELSE TupleObj(top[i].items)
            rest == Build(Alloc(h, obj), top, i + 1)
        IN  <<rest[1], <<Ref(NewAddr(h))>> \o rest[2]>>

\* The heap holding the pool and the sequence `top` of kind kd, which is
\* its last object.
HeapOf(top, kd) ==
    LET b == Build(Pool, top, 1)
    IN  Alloc(b[1], IF kd = "list" THEN ListObj(b[2]) ELSE TupleObj(b[2]))

InitCommon ==
    /\ op = "idle"
    /\ ret = NoCall
    /\ pre = heap
    /\ prompt = <<>>
    /\ hist = <<>>
    /\ t0 = DeepValue(heap, arg)
    /\ resources = [m \in Modules |-> ModuleGlobals]

\* Any argument: a string, None, a number, a mapping, or a sequence.
Init ==
    /\ context = <<>>
    /\ \/ heap = Pool /\ arg \in Scalars
       \/ heap = Pool /\ arg \in {Ref(a) : a \in 1..Len(Pool)}
       \/ \E top \in Tops(MaxTop, MaxSlots), kd \in Kinds :
            /\ heap = HeapOf(top, kd)
            /\ arg = Ref(Len(heap))
    /\ InitCommon

\* What a message of a thread given to add_context_to_messages is drawn
\* from: the messages of the pool.
Msgs == {Ref(1), Ref(2), Ref(3)}

Contexts == {<<"c", "t", "x">>, <<>>}

\* The threads of at most n messages.
Threads(n) == UNION {[1..j -> Msgs] : j \in 0..n}

\* The batches of at least one and at most l threads that hold at most s
\* messages in all.
RECURSIVE BatchesFrom(_, _)
BatchesFrom(l, s) ==
    IF l = 0 THEN {<<>>}
    ELSE {<<>>}
         \cup UNION { {<<Nested(kd, it)>> \o r :
                          kd \in Kinds, it \in [1..j -> Msgs], r \in BatchesFrom(l - 1, s - j)}
                      : j \in 0..s }

Batches == BatchesFrom(MaxBatch, MaxSlots) \ {<<>>}

\* An already formatted argument: a flat thread or a batch of threads, each
\* a list or a tuple, every message with a role and a content.
InitContext ==
    /\ context \in Contexts
    /\ \/ \E t \in Threads(MaxLen), kd \in Kinds :
            heap = HeapOf([i \in 1..Len(t) |-> Plain(t[i])], kd)
       \/ \E b \in Batches, kd \in Kinds : heap = HeapOf(b, kd)
    /\ arg = Ref(Len(heap))
    /\ InitCommon

-----------------------------------------------------------------------------
(* The calls.                                                              *)

\* The call of `name` with string argument s has ended as ret'.
Called(name, s) == hist' = Append(hist, [op |-> name, s |-> s, ret |-> ret'])

DetermineIfBatch ==
    /\ op = "idle"
    /\ op' = "determine_if_batch"
    /\ ret' = determine_if_batch(heap, arg)
    /\ Called(op', <<>>)
    /\ UNCHANGED <<heap, arg, context, pre, prompt, t0, resources>>

FormatMessages ==
    /\ op = "idle"
    /\ op' = "format_messages"
    /\ heap' = format_messages(heap, arg).heap
    /\ ret' = format_messages(heap, arg).ret
    /\ Called(op', <<>>)
    /\ UNCHANGED <<arg, context, pre, prompt, t0, resources>>

LibFormatMessages ==
    /\ op = "idle"
    /\ op' = "lib_format_messages"
    /\ heap' = lib_format_messages(heap, arg).heap
    /\ ret' = lib_format_messages(heap, arg).ret
    /\ Called(op', <<>>)
    /\ UNCHANGED <<arg, context, pre, prompt, t0, resources>>

AddContext ==
    /\ op = "idle"
    /\ op' = "add_context_to_messages"
    /\ heap' = add_context_to_messages(heap, arg, context).heap
    /\ ret' = add_context_to_messages(heap, arg, context).ret
    /\ Called(op', context)
    /\ UNCHANGED <<arg, context, pre, prompt, t0, resources>>

Next == DetermineIfBatch \/ FormatMessages \/ LibFormatMessages

\* format_messages and determine_if_batch on any argument
Spec == Init /\ [][Next]_vars

NextContext == AddContext

\* add_context_to_messages on an already formatted argument
SpecContext == InitContext /\ [][NextContext]_vars

Prompts == {<<"P">>, <<"Q">>}

\* A flat thread, a list or a tuple, every message with a role and a content.
InitEdit ==
    /\ context = <<>>
    /\ \E t \in Threads(MaxLen), kd \in Kinds :
          heap = HeapOf([i \in 1..Len(t) |-> Plain(t[i])], kd)
    /\ arg = Ref(Len(heap))
    /\ InitCommon

\* What the next editing call is given: the thread at first, then what the
\* call before it returned.
Current == IF op = "idle" THEN arg ELSE ret.val

CanEdit == Len(hist) < MaxCalls /\ (op = "idle" \/ ret.kind = "return")

EditAddContext ==
    /\ CanEdit
    /\ \E c \in Contexts :
          /\ context' = c
          /\ heap' = add_context_to_messages(heap, Current, c).heap
          /\ ret' = add_context_to_messages(heap, Current, c).ret
    /\ op' = "add_context_to_messages"
    /\ arg' = Current
    /\ pre' = heap
    /\ Called(op', context')
    /\ UNCHANGED <<prompt, t0, resources>>

SwapSystemPrompt ==
    /\ CanEdit
    /\ \E p \in Prompts :
          /\ prompt' = p
          /\ heap' = swap_system_prompt(heap, Current, p).heap
          /\ ret' = swap_system_prompt(heap, Current, p).ret
    /\ op' = "swap_system_prompt"
    /\ arg' = Current
    /\ pre' = heap
    /\ Called(op', prompt')
    /\ UNCHANGED <<context, t0, resources>>

NextEdit == EditAddContext \/ SwapSystemPrompt

\* add_context_to_messages and swap_system_prompt, each on a flat thread or
\* on what the call before returned
SpecEdit == InitEdit /\ [][NextEdit]_vars

\* A process that has imported the resource modules and holds no messages.
InitResource ==
    /\ heap = <<>>
    /\ arg = NoneV
    /\ context = <<>>
    /\ InitCommon

\* One call of a getter; whether litellm can be imported at that moment is
\* the environment's choice.
GetResource ==
    /\ Len(hist) < MaxGets
    /\ \E m \in Modules, importable \in BOOLEAN :
          LET r == get_resource(heap, resources[m], m, importable)
          IN  /\ heap' = r.heap
              /\ resources' = [resources EXCEPT ![m] = r.globals]
              /\ ret' = r.ret
              /\ op' = Getter(m)
    /\ pre' = heap
    /\ Called(op', <<>>)
    /\ UNCHANGED <<arg, context, prompt, t0>>

NextResource == GetResource

\* calls of get_resource and get_litellm_resource, one after the other
SpecResource == InitResource /\ [][NextResource]_vars

-----------------------------------------------------------------------------
(* Shapes the claims speak of.  A sequence is a list, the type the         *)
(* normaliser is declared for and tests with isinstance.                   *)

IsMessage(h, v) == IsDict(h, v) /\ HasKey(h, v, ROLE)

\* A list of mappings that all have a role; the empty list is one.
ValidThread(h, v) ==
    IsList(h, v) /\ \A i \in 1..Len(Items(h, v)) : IsMessage(h, Items(h, v)[i])

\* A list of valid threads.
ValidBatch(h, v) ==
    IsList(h, v) /\ \A i \in 1..Len(Items(h, v)) : ValidThread(h, Items(h, v)[i])

\* A non-empty list of mappings, with or without a role.
FlatOfMappings(h, v) ==
    /\ IsList(h, v)
    /\ Items(h, v) # <<>>
    /\ \A i \in 1..Len(Items(h, v)) : IsDict(h, Items(h, v)[i])

\* A non-empty list of lists of mappings.
BatchOfMappings(h, v) ==
    /\ IsList(h, v)
    /\ Items(h, v) # <<>>
    /\ \A i \in 1..Len(Items(h, v)) :
          /\ IsList(h, Items(h, v)[i])
          /\ \A j \in 1..Len(Items(h, Items(h, v)[i])) : IsDict(h, Items(h, Items(h, v)[i])[j])

\* The positions of the mappings without a role: <<i>> in a flat thread,
\* <<thread, message>> in a batch.
RolelessAt(h, v) ==
    IF FlatOfMappings(h, v)
    THEN {<<i>> : i \in {i \in 1..Len(Items(h, v)) : ~HasKey(h, Items(h, v)[i], ROLE)}}
    ELSE UNION { {<<i, j>> : j \in {j \in 1..Len(Items(h, Items(h, v)[i])) :
                                        ~HasKey(h, Items(h, Items(h, v)[i])[j], ROLE)}}
                 : i \in 1..Len(Items(h, v)) }

\* p comes no later than q in iteration order: thread order, then message order.
Before(p, q) == p[1] < q[1] \/ (p[1] = q[1] /\ (Len(p) = 1 \/ p[2] <= q[2]))

Formatters == {"format_messages", "lib_format_messages"}

-----------------------------------------------------------------------------
(* format_messages and determine_if_batch, under Spec.                     *)

\* C1: format_messages of a string s returns a new one-element list holding
\* a new mapping {"role": "user", "content": s}; format_messages of a
\* mapping m with a role key returns a new one-element list holding m
\* itself, and m is as it was.
C1_WrapsNonSequence ==
    op = "format_messages" =>
        /\ IsStr(arg) =>
              /\ ret.kind = "return"
              /\ IsList(heap, ret.val)
              /\ ret.val.a > Len(pre)
              /\ Len(Items(heap, ret.val)) = 1
              /\ Items(heap, ret.val)[1].k = "ref"
              /\ Items(heap, ret.val)[1].a > Len(pre)
              /\ heap[Items(heap, ret.val)[1].a] = DictObj(<<ROLE, CONTENT>>, <<Str(USER), arg>>)
              /\ Unmutated(pre, heap)
        /\ IsMessage(pre, arg) =>
              /\ ret.kind = "return"
              /\ IsList(heap, ret.val)
              /\ ret.val.a > Len(pre)
              /\ Items(heap, ret.val) = <<arg>>
              /\ Unmutated(pre, heap)

\* A non-empty string has been wrapped.
C1_Witness ==
    /\ op = "format_messages"
    /\ IsStr(arg)
    /\ arg.s # <<>>
    /\ ret.kind = "return"
    /\ DeepValue(heap, ret.val).items[1].items = <<Str(USER), arg>>

\* C2: format_messages of a valid flat thread (every element a mapping with
\* a role) or of a valid batch (every element a valid thread) returns a
\* value equal to its argument and changes no object.
C2_IdentityOnCanonical ==
    (op = "format_messages" /\ (ValidThread(pre, arg) \/ ValidBatch(pre, arg))) =>
        /\ ret.kind = "return"
        /\ DeepValue(heap, ret.val) = DeepValue(pre, arg)
        /\ Unmutated(pre, heap)

\* C3: determine_if_batch returns True exactly when its argument is a list
\* whose first element is a list; it returns False for every string, every
\* mapping, and every list whose first element is a mapping.
C3_BatchIffNestedList ==
    op = "determine_if_batch" =>
        /\ (ret = Return(BoolV(TRUE))) <=>
              (/\ IsList(pre, arg)
               /\ Items(pre, arg) # <<>>
               /\ IsList(pre, Items(pre, arg)[1]))
        /\ (\/ IsStr(arg)
            \/ IsDict(pre, arg)
            \/ (IsList(pre, arg) /\ Items(pre, arg) # <<>> /\ IsDict(pre, Items(pre, arg)[1])))
              => ret = Return(BoolV(FALSE))

\* A list whose first element is a list, and a second element that is not,
\* has been classified as a batch.
C3_Witness ==
    /\ op = "determine_if_batch"
    /\ ret = Return(BoolV(TRUE))
    /\ Len(Items(pre, arg)) = 2
    /\ ~IsList(pre, Items(pre, arg)[2])

\* C4: classification raises nothing: determine_if_batch returns a boolean
\* for every argument, False for the empty list, and format_messages of the
\* empty list does not fail while classifying it.
C4_ClassificationTotal ==
    /\ op = "determine_if_batch" =>
          /\ ret.kind = "return"
          /\ ret.val.k = "bool"
          /\ (IsList(pre, arg) /\ Items(pre, arg) = <<>>) => ret = Return(BoolV(FALSE))
    /\ (op \in Formatters /\ IsList(pre, arg) /\ Items(pre, arg) = <<>>) =>
          ~(ret.kind = "raise" /\ ret.exc = "IndexError")

\* C5: format_messages of an argument that is not a string, not a mapping
\* with a role, and not a sequence raises the format error (the ValueError
\* of the source) and returns nothing.
C5_OtherShapesRejected ==
    (/\ op \in Formatters
     /\ ~IsStr(arg)
     /\ ~IsMessage(pre, arg)
     /\ ~IsList(pre, arg)
     /\ ~IsTuple(pre, arg)) =>
        ret = Raise("ValueError", <<>>)

\* C6: format_messages of a flat thread or a batch that holds a mapping
\* without a role raises, at the first such mapping in iteration order
\* (thread order, then message order), and changes no object.
C6_FailFast ==
    (/\ op \in Formatters
     /\ FlatOfMappings(pre, arg) \/ BatchOfMappings(pre, arg)
     /\ RolelessAt(pre, arg) # {}) =>
        /\ ret.kind = "raise"
        /\ ret.at \in RolelessAt(pre, arg)
        /\ \A q \in RolelessAt(pre, arg) : Before(ret.at, q)
        /\ Unmutated(pre, heap)

\* A batch whose second thread holds a mapping without a role after a
\* message has been rejected there.
C6_Witness ==
    /\ op \in Formatters
    /\ BatchOfMappings(pre, arg)
    /\ ret.kind = "raise"
    /\ ret.at = <<2, 2>>

\* C7: whatever format_messages returns is a list that is either a valid
\* flat thread or a valid batch.
C7_CanonicalResult ==
    (op \in Formatters /\ ret.kind = "return") =>
        ValidThread(heap, ret.val) \/ ValidBatch(heap, ret.val)

-----------------------------------------------------------------------------
(* add_context_to_messages, under SpecContext.                             *)

\* A flat thread: a list or tuple of messages.
IsFlat(h, v) ==
    /\ IsList(h, v) \/ IsTuple(h, v)
    /\ \A i \in 1..Len(Items(h, v)) : IsMessage(h, Items(h, v)[i])

\* A batch: a non-empty list or tuple of flat threads.
IsBatch(h, v) ==
    /\ IsList(h, v) \/ IsTuple(h, v)
    /\ Items(h, v) # <<>>
    /\ \A i \in 1..Len(Items(h, v)) : IsFlat(h, Items(h, v)[i])

IsSystem(h, v) == Get(h, v, ROLE) = Str(SYSTEM)

\* The positions of the system messages of a flat thread.
SystemAt(h, v) == {i \in 1..Len(Items(h, v)) : IsSystem(h, Items(h, v)[i])}

Max(S) == CHOOSE x \in S : \A y \in S : y <= x

\* C8: add_context_to_messages of a flat thread without a system message
\* returns a new list whose first element is a new message
\* {role: system, content: context} and whose other elements are the
\* messages of the thread, in order; no object of the caller is changed.
C8_InsertsSystemFirst ==
    (op = "add_context_to_messages" /\ IsFlat(pre, arg) /\ SystemAt(pre, arg) = {}) =>
        /\ ret.kind = "return"
        /\ IsList(heap, ret.val)
        /\ ret.val.a > Len(pre)
        /\ Len(Items(heap, ret.val)) = Len(Items(pre, arg)) + 1
        /\ Items(heap, ret.val)[1].k = "ref"
        /\ Items(heap, ret.val)[1].a > Len(pre)
        /\ heap[Items(heap, ret.val)[1].a] =
              DictObj(<<ROLE, CONTENT>>, <<Str(SYSTEM), Str(context)>>)
        /\ Tail(Items(heap, ret.val)) = Items(pre, arg)
        /\ Unmutated(pre, heap)

\* A thread of two messages, neither a system message, has got its context.
C8_Witness ==
    /\ op = "add_context_to_messages"
    /\ IsFlat(pre, arg)
    /\ SystemAt(pre, arg) = {}
    /\ Len(Items(pre, arg)) = 2
    /\ context # <<>>
    /\ ret.kind = "return"

\* C9: add_context_to_messages of a flat thread with a system message
\* returns a list of the same messages in the same order; the content of
\* the system message at the highest position has become
\* old content + "\n\n" + context and its role is kept; every other message
\* object keeps its role and content.
C9_AppendsToLastSystem ==
    (op = "add_context_to_messages" /\ IsFlat(pre, arg) /\ SystemAt(pre, arg) # {}) =>
        LET last == Items(pre, arg)[Max(SystemAt(pre, arg))]
        IN  /\ ret.kind = "return"
            /\ IsList(heap, ret.val)
            /\ Items(heap, ret.val) = Items(pre, arg)
            /\ heap[last.a] =
                  DictObj(<<ROLE, CONTENT>>,
                          <<Str(SYSTEM), Str(Get(pre, last, CONTENT).s \o SEP \o context)>>)
            /\ \A a \in 1..Len(pre) : a # last.a => heap[a] = pre[a]

\* A thread whose two system messages are different objects, the later one
\* not at the front, has got its context.
C9_Witness ==
    /\ op = "add_context_to_messages"
    /\ IsFlat(pre, arg)
    /\ Cardinality({Items(pre, arg)[i].a : i \in SystemAt(pre, arg)}) = 2
    /\ Max(SystemAt(pre, arg)) = 3
    /\ context # <<>>
    /\ ret.kind = "return"

\* C10: add_context_to_messages of a batch returns as many threads, in
\* order, and its i-th thread equals what add_context_to_messages returns
\* for the i-th thread of the batch given alone.
C10_BatchIsPerThread ==
    (op = "add_context_to_messages" /\ IsBatch(pre, arg)) =>
        /\ ret.kind = "return"
        /\ Len(Items(heap, ret.val)) = Len(Items(pre, arg))
        /\ \A i \in 1..Len(Items(pre, arg)) :
              LET alone == add_context_to_messages(pre, Items(pre, arg)[i], context)
              IN  DeepValue(heap, Items(heap, ret.val)[i]) = DeepValue(alone.heap, alone.ret.val)

-----------------------------------------------------------------------------
(* swap_system_prompt, under SpecEdit.                                     *)

\* The messages of a flat thread that are not system messages, in order.
NonSystem(h, v) ==
    LET Keep(x) == ~IsSystem(h, x)
    IN  SelectSeq(Items(h, v), Keep)

\* The position of the one system message of the result of a swap, were it
\* where the last system message of the argument was (1 when it had none).
FormerLastPosition ==
    IF SystemAt(pre, arg) = {} THEN 1 ELSE Max(SystemAt(pre, arg))

\* C11: swap_system_prompt of a flat thread returns a list with exactly one
\* system message, a new message whose content is the prompt; its other
\* elements are the non-system messages of the thread, in order and as they
\* were; no system message of the thread is in it, and when the thread had
\* none the new one comes first.
C11_OneSystemWithPrompt ==
    (op = "swap_system_prompt" /\ IsFlat(pre, arg)) =>
        /\ ret.kind = "return"
        /\ IsList(heap, ret.val)
        /\ IsFlat(heap, ret.val)
        /\ Cardinality(SystemAt(heap, ret.val)) = 1
        /\ \A i \in SystemAt(heap, ret.val) :
              /\ Items(heap, ret.val)[i].a > Len(pre)
              /\ heap[Items(heap, ret.val)[i].a] =
                    DictObj(<<ROLE, CONTENT>>, <<Str(SYSTEM), Str(prompt)>>)
        /\ NonSystem(heap, ret.val) = NonSystem(pre, arg)
        /\ \A i \in SystemAt(pre, arg), j \in 1..Len(Items(heap, ret.val)) :
              Items(heap, ret.val)[j] # Items(pre, arg)[i]
        /\ Unmutated(pre, heap)
        /\ SystemAt(pre, arg) = {} => SystemAt(heap, ret.val) = {1}

\* A thread of three system messages has been swapped.
C11_Witness ==
    /\ op = "swap_system_prompt"
    /\ SystemAt(pre, arg) = {1, 2, 3}
    /\ ret.kind = "return"
    /\ Len(Items(heap, ret.val)) = 1

\* C12, as claimed: the system message of the result of a swap is at the
\* position the last system message had in the argument (at the front when
\* there was none).
C12_AtFormerLastIndex ==
    (op = "swap_system_prompt" /\ IsFlat(pre, arg) /\ ret.kind = "return") =>
        SystemAt(heap, ret.val) = {FormerLastPosition}

\* C12, amended: the system message of the result of a swap is at the
\* position the last system message had in the argument less the number of
\* system messages before it, which were removed; at the front when there
\* was none.
C12_AtFormerLastIndexShifted ==
    (op = "swap_system_prompt" /\ IsFlat(pre, arg)) =>
        /\ ret.kind = "return"
        /\ SystemAt(heap, ret.val) =
              {IF SystemAt(pre, arg) = {} THEN 1
               ELSE FormerLastPosition - (Cardinality(SystemAt(pre, arg)) - 1)}

\* A thread whose last system message is third, after a system message and
\* a user message, has been swapped: the new one is second.
C12_Witness ==
    /\ op = "swap_system_prompt"
    /\ SystemAt(pre, arg) = {1, 3}
    /\ ret.kind = "return"
    /\ SystemAt(heap, ret.val) = {2}

\* The last two calls were swaps with the same prompt, the second on the
\* result of the first.
SwappedTwice ==
    /\ Len(hist) >= 2
    /\ hist[Len(hist)].op = "swap_system_prompt"
    /\ hist[Len(hist) - 1].op = "swap_system_prompt"
    /\ hist[Len(hist)].s = hist[Len(hist) - 1].s

\* C13: a swap of the result of a swap with the same prompt returns a list
\* equal to that result: as long, the same messages in the same order.
C13_SwapIdempotent ==
    SwappedTwice =>
        /\ ret.kind = "return"
        /\ DeepValue(heap, ret.val) = DeepValue(pre, arg)

\* The role of a message given by value.
DeepIsSystem(d) ==
    \E i \in 1..Len(d.keys) : d.keys[i] = ROLE /\ d.items[i] = Str(SYSTEM)

\* A thread of at least two system messages and another message has been
\* swapped twice with the same prompt.
C13_Witness ==
    /\ SwappedTwice
    /\ Len(hist) = 2
    /\ Cardinality({i \in 1..Len(t0.items) : DeepIsSystem(t0.items[i])}) = 2
    /\ Len(t0.items) = 3
    /\ ret.kind = "return"

-----------------------------------------------------------------------------
(* The resource getters, under SpecResource.                               *)

\* The objects of the heap that the constructor of module m made.
Constructed(m) ==
    {a \in 1..Len(heap) : heap[a].k = "_LiteLLMResource" /\ heap[a].module = m}

\* The calls of the getter of module m that returned.
Returned(m) == {i \in 1..Len(hist) : hist[i].op = Getter(m) /\ hist[i].ret.kind = "return"}

\* C14: over the calls made so far, the wrapper of a module has been
\* constructed at most once, and every call of its getter that returned has
\* returned that one object.
C14_Singleton ==
    \A m \in Modules :
        /\ Cardinality(Constructed(m)) <= 1
        /\ \A i \in Returned(m) :
              /\ hist[i].ret.val.k = "ref"
              /\ Constructed(m) = {hist[i].ret.val.a}

\* get_resource has failed once and then returned three times.
C14_Witness ==
    /\ Len(hist) >= 4
    /\ hist[1].op = "get_resource"
    /\ hist[1].ret.kind = "raise"
    /\ Cardinality(Returned("_resource")) = 3

-----------------------------------------------------------------------------
(* The two editing operations together, under SpecEdit.                    *)

EditOps == {"add_context_to_messages", "swap_system_prompt"}

\* C15: an editing call on a flat thread leaves the list it was given as it
\* was and returns another, new list; swap_system_prompt changes no object
\* of the caller, and add_context_to_messages changes at most the last
\* system message of the thread, to its content with the context appended.
C15_CallerListUntouched ==
    (op \in EditOps /\ IsFlat(pre, arg)) =>
        /\ ret.kind = "return"
        /\ heap[arg.a] = pre[arg.a]
        /\ IsList(heap, ret.val)
        /\ ret.val.a > Len(pre)
        /\ op = "swap_system_prompt" => Unmutated(pre, heap)
        /\ op = "add_context_to_messages" =>
              \A a \in 1..Len(pre) : heap[a] # pre[a] =>
                  /\ SystemAt(pre, arg) # {}
                  /\ a = Items(pre, arg)[Max(SystemAt(pre, arg))].a
                  /\ heap[a] =
                        DictObj(<<ROLE, CONTENT>>,
                                <<Str(SYSTEM),
                                  Str(Get(pre, Ref(a), CONTENT).s \o SEP \o context)>>)

\* A list of two system messages and a user message has been swapped.
C15_Witness ==
    /\ op = "swap_system_prompt"
    /\ IsList(pre, arg)
    /\ Cardinality(SystemAt(pre, arg)) = 2
    /\ Len(Items(pre, arg)) = 3
    /\ ret.kind = "return"

\* The messages of a thread given by value that are not system messages.
DeepNonSystem(t) ==
    LET Keep(d) == ~DeepIsSystem(d)
    IN  SelectSeq(t.items, Keep)

\* C16: every result of a chain of editing calls that starts from a flat
\* thread holds a system message; its messages that are not system messages
\* are those of the first thread, equal and in order; and once a swap has
\* been made it holds exactly one system message.
C16_ChainInvariant ==
    op \in EditOps =>
        /\ ret.kind = "return"
        /\ IsFlat(heap, ret.val)
        /\ SystemAt(heap, ret.val) # {}
        /\ DeepNonSystem(DeepValue(heap, ret.val)) = DeepNonSystem(t0)
        /\ (\E i \in 1..Len(hist) : hist[i].op = "swap_system_prompt") =>
              Cardinality(SystemAt(heap, ret.val)) = 1

\* A thread of two system messages and a user message has been swapped and
\* then given two contexts.
C16_Witness ==
    /\ Len(hist) = 3
    /\ hist[1].op = "swap_system_prompt"
    /\ hist[2].op = "add_context_to_messages"
    /\ hist[3].op = "add_context_to_messages"
    /\ hist[3].s # <<>>
    /\ Len(t0.items) = 3
    /\ Len(DeepNonSystem(t0)) = 1
    /\ ret.kind = "return"

====
